---- MODULE Spec2Model ----
(***************************************************************************)
(* Model of src/index.js: the chat / tic-tac-toe socket.io server.         *)
(* State is the three process-wide tables (users, socketToEmail, games),   *)
(* the gameId property the challenge handler hangs on each socket, the set *)
(* of live sockets, and the clock that Date.now() reads.  One action per   *)
(* socket.on(...) handler; a handler runs to completion (Node's event      *)
(* loop), so each is one atomic step.                                      *)
(***************************************************************************)
EXTENDS Integers, Sequences, FiniteSets, TLC

(* ------------------------------ bounds -------------------------------- *)
\* Socket ids ever handed out (socket.io never reuses an id).
MaxSockets == 2
\* Date.now() ranges over 0..MaxTime.
MaxTime == 1
\* Game records held in the store at one time.
MaxGames == 2
\* Occupied cells, summed over the store, beyond which no move is submitted.
MaxMoves == 1

\* The strings clients send as an e-mail.  "A" folds to "a".
RawEmails == {"a", "A", "b"}

\* The bounds of SpecPlay: sockets, game records, and the load of the store
\* (records plus occupied cells) up to which events other than moves arrive.
PlaySockets == 2
PlayGames == 1
PlayCalm == 0
PlayEmails == {"a", "b"}

\* The bounds of SpecMix: game records, and the cells 0..MixTop that
\* make_move is sent for.
MixGames == 1
MixTop == 5

SocketIds == 1..MaxSockets
\* board: Array(9)
BoardSize == 9
Cells == 0..(BoardSize - 1)

(* --------------------------- JavaScript values ------------------------ *)
\* undefined, where a socket id is expected (users[e], players[e]?.socketId)
NoSocket == 0
\* the room io.emit(...) addresses: every connected socket
Everyone == -1
\* undefined, where an e-mail is expected (socketToEmail[id], find(...))
NoEmail == "undefined"
\* undefined, where a game id is expected (socket.gameId)
NoGame == <<>>
\* null, in a board cell and as checkWinner's result
Null == "null"

\* String.prototype.toLowerCase on the strings of RawEmails
ToLower(str) == IF str = "A" THEN "a" ELSE str

Emails == {ToLower(r) : r \in RawEmails}

\* !x for an e-mail: undefined and the empty string are both false
Falsy(email) == email = NoEmail \/ email = ""

VARIABLES
    sockets,        \* socket id -> "unborn" | "open" | "closed"
    users,          \* email -> socket id, NoSocket where the key is absent
    socketToEmail,  \* socket id -> email, NoEmail where the key is absent
    games,          \* function: game id -> game record (DOMAIN = keys)
    gameIdOf,       \* socket.gameId of each socket
    now,            \* Date.now()
    emitted,        \* the events the latest handler emitted, in order
    last,           \* the latest inbound event: [ev, sock]
    crashed,        \* a handler threw: the process is gone
    arg,            \* the board a direct call of checkWinner is given
    ret             \* what that call returned, "pending" before it

server == <<sockets, users, socketToEmail, games, gameIdOf, now, emitted, last, crashed>>
vars == <<server, arg, ret>>

\* Object.keys(users)
OnlineKeys(u) == {e \in Emails : u[e] # NoSocket}

Msg(ev, room, payload) == [ev |-> ev, room |-> room, payload |-> payload]

Init ==
    /\ sockets = [s \in SocketIds |-> "unborn"]
    /\ users = [e \in Emails |-> NoSocket]
    /\ socketToEmail = [s \in SocketIds |-> NoEmail]
    /\ games = <<>>
    /\ gameIdOf = [s \in SocketIds |-> NoGame]
    /\ now = 0
    /\ emitted = <<>>
    /\ last = [ev |-> "none", sock |-> NoSocket]
    /\ crashed = FALSE
    /\ arg = [c \in Cells |-> Null]
    /\ ret = "pending"

\* io.on("connection"): the next socket id comes to life
Connect(s) ==
    /\ ~crashed
    /\ sockets[s] = "unborn"
    /\ \A t \in SocketIds : t < s => sockets[t] # "unborn"
    /\ sockets' = [sockets EXCEPT ![s] = "open"]
    /\ emitted' = <<>>
    /\ last' = [ev |-> "connection", sock |-> s]
    /\ UNCHANGED <<users, socketToEmail, games, gameIdOf, now, crashed, arg, ret>>

\* the users table after the register handler's write
RegisterUsers(u, email, s) == [u EXCEPT ![email] = s]

\* socket.on("register")
Register(s, raw) ==
    LET normalizedEmail == ToLower(raw) IN
    /\ ~crashed
    /\ sockets[s] = "open"
    /\ users' = RegisterUsers(users, normalizedEmail, s)
    /\ socketToEmail' = [socketToEmail EXCEPT ![s] = normalizedEmail]
    /\ emitted' = << Msg("users_online", Everyone, OnlineKeys(users')),
                     Msg("chat_message", s, <<"System", normalizedEmail>>) >>
    /\ last' = [ev |-> "register", sock |-> s]
    /\ UNCHANGED <<sockets, games, gameIdOf, now, crashed, arg, ret>>

\* An object literal { [k1]: v1, [k2]: v2 }: keys in insertion order, a
\* repeated key keeps its first position and takes the later value.
PlayersLit(k1, v1, k2, v2) ==
    IF k1 = k2
    THEN [keys |-> <<k1>>, val |-> (k1 :> v2)]
    ELSE [keys |-> <<k1, k2>>, val |-> (k1 :> v1 @@ k2 :> v2)]

\* Object.keys(game.players).find(e => e !== email)
FindOther(players, email) ==
    LET hits == {i \in 1..Len(players.keys) : players.keys[i] # email} IN
    IF hits = {} THEN NoEmail
    ELSE players.keys[CHOOSE i \in hits : \A j \in hits : i <= j]

\* Array(9).fill(null)
EmptyBoard == [c \in Cells |-> Null]

\* NewGame with the first turn given to the opponent
NewGameOpponentFirst(myEmail, s, opponentEmail, opponentSocketId) ==
    [ players |-> PlayersLit(myEmail, [symbol |-> "X", socketId |-> s],
                             opponentEmail, [symbol |-> "O", socketId |-> opponentSocketId]),
      board   |-> EmptyBoard,
      turn    |-> opponentEmail,
      status  |-> "ongoing" ]

\* the record the challenge handler stores
NewGame(myEmail, s, opponentEmail, opponentSocketId) ==
    [ players |-> PlayersLit(myEmail, [symbol |-> "X", socketId |-> s],
                             opponentEmail, [symbol |-> "O", socketId |-> opponentSocketId]),
      board   |-> EmptyBoard,
      turn    |-> myEmail,
      status  |-> "ongoing" ]

\* `${myEmail}-${normalizedOpponentEmail}-${Date.now()}`: no string of
\* RawEmails holds a hyphen, so the three parts determine the id.
GameId(myEmail, opponentEmail, time) == <<myEmail, opponentEmail, time>>

\* games[gameId] = record
PutGame(g, gameId, rec) ==
    [k \in DOMAIN g \cup {gameId} |-> IF k = gameId THEN rec ELSE g[k]]

\* delete games[gameId]
DeleteGame(g, gameId) == [k \in DOMAIN g \ {gameId} |-> g[k]]

\* which of the challenge handler's three outcomes applies
ChallengeOutcome(s, opponentSocketId) ==
    IF opponentSocketId = NoSocket THEN "not_found"
    ELSE IF opponentSocketId = s THEN "self"
    ELSE "create"

\* socket.on("challenge")
Challenge(s, raw) ==
    LET myEmail == socketToEmail[s]
        normalizedOpponentEmail == ToLower(raw)
        opponentSocketId == users[normalizedOpponentEmail]
        outcome == ChallengeOutcome(s, opponentSocketId)
        gameId == GameId(myEmail, normalizedOpponentEmail, now)
    IN
    /\ ~crashed
    /\ sockets[s] = "open"
    /\ last' = [ev |-> "challenge", sock |-> s]
    /\ IF Falsy(myEmail)
       THEN /\ emitted' = <<>>
            /\ UNCHANGED <<games, gameIdOf>>
       ELSE IF outcome = "not_found"
       THEN /\ emitted' = << Msg("challenge_error", s, "User not found or offline.") >>
            /\ UNCHANGED <<games, gameIdOf>>
       ELSE IF outcome = "self"
       THEN /\ emitted' = << Msg("challenge_error", s, "You cannot play against yourself.") >>
            /\ UNCHANGED <<games, gameIdOf>>
       ELSE /\ games' = PutGame(games, gameId,
                                NewGame(myEmail, s, normalizedOpponentEmail, opponentSocketId))
            /\ emitted' = << Msg("game_start", s,
                                 [gameId |-> gameId, symbol |-> "X",
                                  opponent |-> normalizedOpponentEmail]),
                             Msg("game_start", opponentSocketId,
                                 [gameId |-> gameId, symbol |-> "O", opponent |-> myEmail]) >>
            \* io.sockets.sockets.get(id) is undefined for a socket that has gone
            /\ gameIdOf' = [t \in SocketIds |->
                              IF t = s \/ (t = opponentSocketId /\ sockets[t] = "open")
                              THEN gameId ELSE gameIdOf[t]]
    /\ UNCHANGED <<sockets, users, socketToEmail, now, crashed, arg, ret>>

\* Lines with the last cell of the first diagonal mistyped
LinesTypo == << <<0, 1, 2>>, <<3, 4, 5>>, <<6, 7, 8>>,
                <<0, 3, 6>>, <<1, 4, 7>>, <<2, 5, 8>>,
                <<0, 4, 7>>, <<2, 4, 6>> >>

\* the eight lines of checkWinner, in its scan order
Lines == << <<0, 1, 2>>, <<3, 4, 5>>, <<6, 7, 8>>,
            <<0, 3, 6>>, <<1, 4, 7>>, <<2, 5, 8>>,
            <<0, 4, 8>>, <<2, 4, 6>> >>

\* the test of checkWinner's loop body on one line
LineDone(board, l) ==
    /\ board[l[1]] # Null
    /\ board[l[1]] = board[l[2]]
    /\ board[l[1]] = board[l[3]]

RECURSIVE ScanPairs(_, _)
ScanPairs(board, i) ==
    IF i > Len(Lines) THEN Null
    ELSE IF board[Lines[i][1]] # Null /\ board[Lines[i][1]] = board[Lines[i][2]]
         THEN board[Lines[i][1]]
    ELSE ScanPairs(board, i + 1)

\* checkWinner without the comparison of the third cell
checkWinnerPairs(board) == ScanPairs(board, 1)

RECURSIVE ScanLines(_, _)
\* the for loop of checkWinner from line i on
ScanLines(board, i) ==
    IF i > Len(Lines) THEN Null
    ELSE IF LineDone(board, Lines[i]) THEN board[Lines[i][1]]
    ELSE ScanLines(board, i + 1)

checkWinner(board) == ScanLines(board, 1)

\* game.board.every(cell => cell !== null)
BoardFull(board) == \A c \in Cells : board[c] # Null

\* MoveIgnored without the test of the game's status
MoveIgnoredAfterEnd(s, index) ==
    IF gameIdOf[s] = NoGame THEN TRUE
    ELSE IF gameIdOf[s] \notin DOMAIN games THEN TRUE
    ELSE IF games[gameIdOf[s]].turn # socketToEmail[s] THEN TRUE
    ELSE games[gameIdOf[s]].board[index] # Null

\* MoveIgnored without the test of the target cell
MoveIgnoredLoose(s, index) ==
    IF gameIdOf[s] = NoGame THEN TRUE
    ELSE IF gameIdOf[s] \notin DOMAIN games THEN TRUE
    ELSE IF games[gameIdOf[s]].status # "ongoing" THEN TRUE
    ELSE games[gameIdOf[s]].turn # socketToEmail[s]

\* the guards of make_move: TRUE when the handler returns before writing
MoveIgnored(s, index) ==
    IF gameIdOf[s] = NoGame THEN TRUE
    ELSE IF gameIdOf[s] \notin DOMAIN games THEN TRUE
    ELSE IF games[gameIdOf[s]].status # "ongoing" THEN TRUE
    ELSE IF games[gameIdOf[s]].turn # socketToEmail[s] THEN TRUE
    ELSE games[gameIdOf[s]].board[index] # Null

\* AfterMove with the turn switched before the board is looked at
AfterMoveFlipsTurn(game, board, email, opponentEmail) ==
    LET winner == checkWinner(board)
        mine == game.players.val[email].socketId
        theirs == game.players.val[opponentEmail].socketId
        over == [game EXCEPT !.board = board, !.status = "finished", !.turn = opponentEmail]
    IN
    IF winner # Null
    THEN [ game |-> over,
           out  |-> << Msg("game_over", mine, winner), Msg("game_over", theirs, winner) >> ]
    ELSE IF BoardFull(board)
    THEN [ game |-> over,
           out  |-> << Msg("game_over", mine, "draw"), Msg("game_over", theirs, "draw") >> ]
    ELSE [ game |-> [game EXCEPT !.board = board, !.turn = opponentEmail],
           out  |-> <<>> ]

\* AfterMove with the full board tested before the winner
AfterMoveDrawFirst(game, board, email, opponentEmail) ==
    LET winner == checkWinner(board)
        mine == game.players.val[email].socketId
        theirs == game.players.val[opponentEmail].socketId
    IN
    IF BoardFull(board)
    THEN [ game |-> [game EXCEPT !.board = board, !.status = "finished"],
           out  |-> << Msg("game_over", mine, "draw"), Msg("game_over", theirs, "draw") >> ]
    ELSE IF winner # Null
    THEN [ game |-> [game EXCEPT !.board = board, !.status = "finished"],
           out  |-> << Msg("game_over", mine, winner), Msg("game_over", theirs, winner) >> ]
    ELSE [ game |-> [game EXCEPT !.board = board, !.turn = opponentEmail],
           out  |-> <<>> ]

\* AfterMove with the status left alone when a line is complete
AfterMoveKeepsGoing(game, board, email, opponentEmail) ==
    LET winner == checkWinner(board)
        mine == game.players.val[email].socketId
        theirs == game.players.val[opponentEmail].socketId
    IN
    IF winner # Null
    THEN [ game |-> [game EXCEPT !.board = board],
           out  |-> << Msg("game_over", mine, winner), Msg("game_over", theirs, winner) >> ]
    ELSE IF BoardFull(board)
    THEN [ game |-> [game EXCEPT !.board = board, !.status = "finished"],
           out  |-> << Msg("game_over", mine, "draw"), Msg("game_over", theirs, "draw") >> ]
    ELSE [ game |-> [game EXCEPT !.board = board, !.turn = opponentEmail],
           out  |-> <<>> ]

\* what make_move does after a legal move is on the board
AfterMove(game, board, email, opponentEmail) ==
    LET winner == checkWinner(board)
        mine == game.players.val[email].socketId
        theirs == game.players.val[opponentEmail].socketId
    IN
    IF winner # Null
    THEN [ game |-> [game EXCEPT !.board = board, !.status = "finished"],
           out  |-> << Msg("game_over", mine, winner), Msg("game_over", theirs, winner) >> ]
    ELSE IF BoardFull(board)
    THEN [ game |-> [game EXCEPT !.board = board, !.status = "finished"],
           out  |-> << Msg("game_over", mine, "draw"), Msg("game_over", theirs, "draw") >> ]
    ELSE [ game |-> [game EXCEPT !.board = board, !.turn = opponentEmail],
           out  |-> <<>> ]

\* socket.on("make_move")
MakeMove(s, index) ==
    LET gameId == gameIdOf[s]
        game == games[gameId]
        email == socketToEmail[s]
        known == email \in DOMAIN game.players.val
        symbol == game.players.val[email].symbol
        board == [game.board EXCEPT ![index] = symbol]
        opponentEmail == FindOther(game.players, email)
        res == AfterMove(game, board, email, opponentEmail)
    IN
    /\ ~crashed
    /\ sockets[s] = "open"
    /\ last' = [ev |-> "make_move", sock |-> s]
    /\ IF MoveIgnored(s, index)
       THEN /\ emitted' = <<>>
            /\ UNCHANGED <<games, crashed>>
       ELSE IF ~known
       \* game.players[email] is undefined: reading .symbol throws
       THEN /\ emitted' = <<>>
            /\ crashed' = TRUE
            /\ UNCHANGED games
       ELSE IF opponentEmail = NoEmail
       \* game.players[undefined] is undefined: reading .socketId throws,
       \* after the board was written
       THEN /\ games' = [games EXCEPT ![gameId].board = board]
            /\ emitted' = <<>>
            /\ crashed' = TRUE
       ELSE /\ games' = [games EXCEPT ![gameId] = res.game]
            /\ emitted' = << Msg("move_made", game.players.val[email].socketId,
                                 [index |-> index, symbol |-> symbol]),
                             Msg("move_made", game.players.val[opponentEmail].socketId,
                                 [index |-> index, symbol |-> symbol]) >> \o res.out
            /\ UNCHANGED crashed
    /\ UNCHANGED <<sockets, users, socketToEmail, gameIdOf, now, arg, ret>>

\* the users table after the disconnect handler's delete
DisconnectUsers(u, email) == [u EXCEPT ![email] = NoSocket]

\* the socket opponent_left goes to: game.players[opponentEmail]?.socketId
LeftTarget(game, email) ==
    LET opponentEmail == FindOther(game.players, email) IN
    IF opponentEmail = NoEmail THEN NoSocket
    ELSE game.players.val[opponentEmail].socketId

\* socket.on("disconnect")
Disconnect(s) ==
    LET email == socketToEmail[s]
        gameId == gameIdOf[s]
        inGame == gameId # NoGame /\ gameId \in DOMAIN games
        target == LeftTarget(games[gameId], email)
    IN
    /\ ~crashed
    /\ sockets[s] = "open"
    /\ sockets' = [sockets EXCEPT ![s] = "closed"]
    /\ last' = [ev |-> "disconnect", sock |-> s]
    /\ IF Falsy(email)
       THEN /\ emitted' = <<>>
            /\ UNCHANGED <<users, socketToEmail, games>>
       ELSE /\ users' = DisconnectUsers(users, email)
            /\ socketToEmail' = [socketToEmail EXCEPT ![s] = NoEmail]
            /\ IF inGame
               THEN /\ games' = DeleteGame(games, gameId)
                    /\ emitted' = << Msg("users_online", Everyone, OnlineKeys(users')) >>
                                  \o (IF target # NoSocket
                                      THEN << Msg("opponent_left", target, Null) >>
                                      ELSE <<>>)
               ELSE /\ games' = games
                    /\ emitted' = << Msg("users_online", Everyone, OnlineKeys(users')) >>
    /\ UNCHANGED <<gameIdOf, now, crashed, arg, ret>>

\* socket.on("chat_message")
ChatMessage(s, text) ==
    LET email == socketToEmail[s] IN
    /\ ~crashed
    /\ sockets[s] = "open"
    /\ last' = [ev |-> "chat_message", sock |-> s]
    /\ emitted' = IF Falsy(email) THEN <<>>
                  ELSE << Msg("chat_message", Everyone, <<email, text>>) >>
    /\ UNCHANGED <<sockets, users, socketToEmail, games, gameIdOf, now, crashed, arg, ret>>

\* the clock moves between events
Tick ==
    /\ ~crashed
    /\ now < MaxTime
    /\ now' = now + 1
    /\ UNCHANGED <<sockets, users, socketToEmail, games, gameIdOf, emitted, last, crashed, arg, ret>>

\* occupied cells, summed over the store
RECURSIVE FilledIn(_, _)
FilledIn(g, ids) ==
    IF ids = {} THEN 0
    ELSE LET id == CHOOSE k \in ids : TRUE IN
         Cardinality({c \in Cells : g[id].board[c] # Null}) + FilledIn(g, ids \ {id})

Filled == FilledIn(games, DOMAIN games)

\* game records plus occupied cells
Load == Cardinality(DOMAIN games) + Filled

\* the load of the store is at most calm
Quiet(calm) == IF Cardinality(DOMAIN games) > calm THEN FALSE ELSE Load <= calm

\* the store after a challenge of s to raw holds at most maxGames records
Fits(s, raw, maxGames) ==
    Cardinality(DOMAIN games \cup {GameId(socketToEmail[s], ToLower(raw), now)}) <= maxGames

\* The events of socks, with e-mails from raws, while the store holds at most
\* maxGames records and no move is written past maxMoves occupied cells;
\* events other than moves
\* arrive only while the store's load is at most calm.
NextOf(socks, raws, maxGames, maxMoves, calm) ==
    \/ Quiet(calm) /\ \E s \in socks : Connect(s)
    \/ Quiet(calm) /\ \E s \in socks, raw \in raws : Register(s, raw)
    \/ Quiet(calm) /\ \E s \in socks, raw \in raws :
                          Fits(s, raw, maxGames) /\ Challenge(s, raw)
    \/ IF Filled < maxMoves
       THEN \E s \in socks, index \in Cells : MakeMove(s, index)
       ELSE \E s \in socks, index \in Cells : MoveIgnored(s, index) /\ MakeMove(s, index)
    \/ Quiet(calm) /\ \E s \in socks : Disconnect(s)
    \/ Quiet(calm) /\ \E s \in socks : ChatMessage(s, "hi")

\* every interleaving of every event, on boards of at most MaxMoves cells
Next == NextOf(SocketIds, RawEmails, MaxGames, MaxMoves, MaxGames + MaxMoves) \/ Tick

Spec == Init /\ [][Next]_vars

\* whole games: two sockets set one game up, and from then on only moves
\* arrive; make_move never reads the clock, which stands still here
NextPlay == NextOf(1..PlaySockets, PlayEmails, PlayGames, BoardSize, PlayCalm)

SpecPlay == Init /\ [][NextPlay]_vars

\* every event at any time, around one game played on the cells 0..MixTop;
\* the clock stands still, so a repeated challenge computes the same game id
NextMix ==
    \/ \E s \in SocketIds : Connect(s)
    \/ \E s \in SocketIds, raw \in PlayEmails : Register(s, raw)
    \/ \E s \in SocketIds, raw \in PlayEmails :
          Fits(s, raw, MixGames) /\ Challenge(s, raw)
    \/ \E s \in SocketIds, index \in 0..MixTop : MakeMove(s, index)
    \/ \E s \in SocketIds : Disconnect(s)
    \/ \E s \in SocketIds : ChatMessage(s, "hi")

SpecMix == Init /\ [][NextMix]_vars

\* checkWinner called on any board at all
InitWin ==
    /\ sockets = [s \in SocketIds |-> "unborn"]
    /\ users = [e \in Emails |-> NoSocket]
    /\ socketToEmail = [s \in SocketIds |-> NoEmail]
    /\ games = <<>>
    /\ gameIdOf = [s \in SocketIds |-> NoGame]
    /\ now = 0
    /\ emitted = <<>>
    /\ last = [ev |-> "none", sock |-> NoSocket]
    /\ crashed = FALSE
    /\ arg \in [Cells -> {Null, "X", "O"}]
    /\ ret = "pending"

CallCheckWinner ==
    /\ ret = "pending"
    /\ ret' = checkWinner(arg)
    /\ UNCHANGED <<server, arg>>

SpecWin == InitWin /\ [][CallCheckWinner]_vars

(* ------------------------------ claims -------------------------------- *)
\* some connected socket is registered under email
HasSession(email) ==
    \E t \in SocketIds : sockets[t] = "open" /\ socketToEmail[t] = email

\* the identifiers that have a session
Online == {e \in Emails : HasSession(e)}

\* the places of the events named ev in a sequence of emitted events
Places(out, ev) == {k \in 1..Len(out) : out[k].ev = ev}

\* the 8 triples, as the specification lists them: rows, columns, diagonals
Triples == << <<0, 1, 2>>, <<3, 4, 5>>, <<6, 7, 8>>,
              <<0, 3, 6>>, <<1, 4, 7>>, <<2, 5, 8>>,
              <<0, 4, 8>>, <<2, 4, 6>> >>

\* triple k of board b holds three equal symbols
Complete(b, k) ==
    /\ b[Triples[k][1]] \in {"X", "O"}
    /\ b[Triples[k][2]] = b[Triples[k][1]]
    /\ b[Triples[k][3]] = b[Triples[k][1]]

Won(b) == \E k \in 1..8 : Complete(b, k)

Occupied(b) == Cardinality({c \in Cells : b[c] # Null})

\* the latest inbound event of the next state is a make_move
MoveNext == last'.ev = "make_move"

\* the next state's events begin with a move_made
MoveMadeNext == emitted' # <<>> /\ emitted'[1].ev = "move_made"

\* this step is a make_move from socket s, with some index
SomeMove(s) == \E index \in Cells : MakeMove(s, index)

\* C1: once c2 is the latest socket to have registered e, the lookup of e
\* yields c2 in every later state as long as c2 neither disconnects nor
\* registers again (and nobody else registers e), whatever else happens.
C1_LastRegistrationWins ==
    [][\A e \in Emails, c2 \in SocketIds :
         ( /\ users[e] = c2
           /\ socketToEmail[c2] = e
           /\ sockets'[c2] = "open"
           /\ socketToEmail'[c2] = e
           /\ ~\E c \in SocketIds \ {c2}, raw \in RawEmails :
                 ToLower(raw) = e /\ Register(c, raw) )
         => users'[e] = c2]_vars

\* C2: a challenge by a registered socket that names an identifier with no
\* connected registered session emits one challenge_error, to the
\* challenger, and nothing else, and leaves the game store as it was.
C2_UnknownOpponentRejected ==
    [][\A s \in SocketIds, raw \in RawEmails :
         ( /\ Challenge(s, raw)
           /\ ~Falsy(socketToEmail[s])
           /\ ~HasSession(ToLower(raw)) )
         => /\ Len(emitted') = 1
            /\ emitted'[1].ev = "challenge_error"
            /\ emitted'[1].room = s
            /\ games' = games]_vars

\* C3: a challenge whose opponent identifier folds to the challenger's own
\* registered identifier emits a challenge_error to the challenger and
\* creates no game.
C3_SelfChallengeRejected ==
    [][\A s \in SocketIds, raw \in RawEmails :
         ( /\ Challenge(s, raw)
           /\ ~Falsy(socketToEmail[s])
           /\ ToLower(raw) = socketToEmail[s] )
         => /\ \E k \in Places(emitted', "challenge_error") : emitted'[k].room = s
            /\ Places(emitted', "game_start") = {}
            /\ games' = games]_vars

\* C4: in every game the accepted moves alternate, challenger first: the
\* odd ones are made under the challenger's identifier (the first part of
\* the game id) with X, the even ones under the opponent's (the second part)
\* with O, each filling one empty cell; and a make_move from a socket whose
\* identifier is not the turn marker changes no game and emits nothing.
C4_TurnOrder ==
    [][MoveNext =>
         LET s == last'.sock
             g == gameIdOf[s]
             index == emitted'[1].payload.index
             n == Occupied(games'[g].board)
             sym == IF n % 2 = 1 THEN "X" ELSE "O"
             who == IF n % 2 = 1 THEN g[1] ELSE g[2]
         IN
         /\ (MoveMadeNext /\ MakeMove(s, index)) =>
              /\ n = Occupied(games[g].board) + 1
              /\ games[g].board[index] = Null
              /\ games'[g].board[index] = sym
              /\ socketToEmail[s] = who
              /\ games[g].turn = who
              /\ \A k \in Places(emitted', "move_made") :
                    emitted'[k].payload = [index |-> index, symbol |-> sym]
              /\ games'[g].status = "ongoing" => games'[g].turn # who
         /\ (g \in DOMAIN games /\ games[g].turn # socketToEmail[s]) =>
              \/ games' = games /\ emitted' = <<>>
              \/ ~SomeMove(s)]_vars

\* a second accepted move (an O) is the latest event
C4_Witness ==
    /\ last.ev = "make_move"
    /\ Len(emitted) >= 2
    /\ emitted[1].ev = "move_made"
    /\ emitted[1].payload.symbol = "O"
    /\ gameIdOf[last.sock] \in DOMAIN games
    /\ Occupied(games[gameIdOf[last.sock]].board) = 4

\* C5: make_move emits nothing and changes no game when the socket has no
\* attached game, the attached game is not in the store, the game is
\* finished, it is not the sender's turn, or the cell is occupied; and in any
\* make_move a set cell keeps its value and a finished game keeps its board.
C5_IgnoredMoveIsNoOp ==
    [][MoveNext =>
         LET s == last'.sock IN
         /\ \/ emitted' = <<>> /\ games' = games /\ crashed' = crashed
            \/ \A index \in Cells :
                 ( \/ gameIdOf[s] = NoGame
                   \/ gameIdOf[s] \notin DOMAIN games
                   \/ games[gameIdOf[s]].status = "finished"
                   \/ games[gameIdOf[s]].turn # socketToEmail[s]
                   \/ games[gameIdOf[s]].board[index] \in {"X", "O"} )
                 => ~MakeMove(s, index)
         /\ \/ games' = games
            \/ ~SomeMove(s)
            \/ \A g \in DOMAIN games :
                 /\ g \in DOMAIN games'
                 /\ \A c \in Cells :
                      games[g].board[c] # Null => games'[g].board[c] = games[g].board[c]
                 /\ games[g].status = "finished" => games'[g] = games[g]]_vars

\* a make_move was ignored although the sender is attached to an ongoing game
\* and it is the sender's turn: the cell was occupied
C5_Witness ==
    /\ last.ev = "make_move"
    /\ emitted = <<>>
    /\ ~crashed
    /\ gameIdOf[last.sock] \in DOMAIN games
    /\ games[gameIdOf[last.sock]].status = "ongoing"
    /\ games[gameIdOf[last.sock]].turn = socketToEmail[last.sock]
    /\ Occupied(games[gameIdOf[last.sock]].board) >= 1

\* C6: when an accepted move leaves a triple with three equal symbols, the
\* same step sets the game finished, leaves the turn marker alone, and emits
\* move_made twice and then game_over, to the mover's and to the opponent's
\* socket of the game record, carrying the mover's symbol, which is the
\* symbol of every complete triple.
C6_WinEndsGame ==
    [][(MoveNext /\ MoveMadeNext) =>
         LET s == last'.sock
             index == emitted'[1].payload.index
             g == gameIdOf[s]
             me == socketToEmail[s]
             sym == games[g].players.val[me].symbol
             conns == {games[g].players.val[e].socketId : e \in DOMAIN games[g].players.val}
         IN
         (MakeMove(s, index) /\ Won(games'[g].board)) =>
           /\ games'[g].status = "finished"
           /\ games'[g].turn = games[g].turn
           /\ games'[g].board[index] = sym
           /\ \A k \in 1..8 : Complete(games'[g].board, k) =>
                                 games'[g].board[Triples[k][1]] = sym
           /\ Len(emitted') = 4
           /\ emitted'[1].ev = "move_made" /\ emitted'[2].ev = "move_made"
           /\ emitted'[3] = Msg("game_over", games[g].players.val[me].socketId, sym)
           /\ emitted'[4].ev = "game_over" /\ emitted'[4].payload = sym
           /\ {emitted'[3].room, emitted'[4].room} = conns
           /\ Cardinality(conns) = 2]_vars

\* a move has just won a game
C6_Witness ==
    /\ last.ev = "make_move"
    /\ Len(emitted) = 4
    /\ emitted[3].ev = "game_over"
    /\ emitted[3].payload \in {"X", "O"}
    /\ Won(games[gameIdOf[last.sock]].board)
    /\ games[gameIdOf[last.sock]].status = "finished"

\* C7: when an accepted move fills the ninth cell, the game becomes
\* finished and both sockets of the record get game_over: with the draw
\* marker when no triple is complete, with the winner's symbol (and not the
\* draw marker) when one is.
C7_NinthMove ==
    [][(MoveNext /\ MoveMadeNext) =>
         LET s == last'.sock
             index == emitted'[1].payload.index
             g == gameIdOf[s]
             conns == {games[g].players.val[e].socketId : e \in DOMAIN games[g].players.val}
             what == IF Won(games'[g].board) THEN games'[g].board[index] ELSE "draw"
         IN
         (MakeMove(s, index) /\ Occupied(games'[g].board) = BoardSize) =>
           /\ games'[g].status = "finished"
           /\ Cardinality(Places(emitted', "game_over")) = 2
           /\ \A k \in Places(emitted', "game_over") : emitted'[k].payload = what
           /\ {emitted'[k].room : k \in Places(emitted', "game_over")} = conns
           /\ what \in {"X", "O"} <=> Won(games'[g].board)]_vars

\* a ninth move has just ended a game in a draw
C7_Witness ==
    /\ last.ev = "make_move"
    /\ Len(emitted) = 4
    /\ emitted[3].payload = "draw"
    /\ emitted[4].payload = "draw"
    /\ Occupied(games[gameIdOf[last.sock]].board) = BoardSize
    /\ ~Won(games[gameIdOf[last.sock]].board)
    /\ games[gameIdOf[last.sock]].status = "finished"

\* C8: when a socket that a record of an ongoing game names as a player
\* disconnects, that record leaves the store and exactly one opponent_left
\* is emitted, to the record's other socket.  Stated for the records whose
\* two players are still registered as they were when the game began.
C8_DisconnectEndsGame ==
    [][\A s \in SocketIds :
         \A g \in DOMAIN games :
           LET conns == {games[g].players.val[e].socketId : e \in DOMAIN games[g].players.val} IN
           ( /\ Disconnect(s)
             /\ games[g].status = "ongoing"
             /\ Len(games[g].players.keys) = 2
             /\ \A e \in DOMAIN games[g].players.val :
                   /\ users[e] = games[g].players.val[e].socketId
                   /\ socketToEmail[games[g].players.val[e].socketId] = e
             /\ s \in conns )
           => /\ g \notin DOMAIN games'
              /\ Cardinality(Places(emitted', "opponent_left")) = 1
              /\ \A k \in Places(emitted', "opponent_left") :
                    emitted'[k].room \in conns \ {s}]_vars

\* C9: every users_online carries exactly the identifiers under which some
\* connected socket is registered.
C9_OnlineListExact ==
    \A k \in Places(emitted, "users_online") : emitted[k].payload = Online

\* C10: checkWinner returns a symbol only if some triple holds three of it,
\* returns none exactly when no triple is complete, and otherwise returns
\* the symbol of the first complete triple in the listed order.
C10_CheckWinner ==
    ret # "pending" =>
      LET done == {k \in 1..8 : Complete(arg, k)} IN
      IF done = {} THEN ret = Null
      ELSE LET first == CHOOSE k \in done : \A j \in done : k <= j IN
           /\ ret = arg[Triples[first][1]]
           /\ ret \in {"X", "O"}
           /\ \E k \in done : arg[Triples[k][1]] = ret

\* checkWinner has answered "O" on a board where an X triple, later in the
\* order, is complete too
C10_Witness ==
    /\ ret = "O"
    /\ \E k \in 1..8 : Complete(arg, k) /\ arg[Triples[k][1]] = "X"

\* the sockets the record of game g names as its players
Conns(g) == {games[g].players.val[e].socketId : e \in DOMAIN games[g].players.val}

\* C11: no two connected sockets resolve, by socketToEmail, to the same
\* identifier.
C11_OneSessionPerIdentifier ==
    \A s, t \in SocketIds :
      ( /\ s # t
        /\ sockets[s] = "open"
        /\ sockets[t] = "open"
        /\ socketToEmail[s] # NoEmail )
      => socketToEmail[s] # socketToEmail[t]

\* C12: every record in the store has two players under two distinct
\* identifiers, the challenger (the first part of the game id) with X and the
\* other with O, and the two name different sockets.
C12_TwoDistinctPlayers ==
    \A g \in DOMAIN games :
      LET p == games[g].players IN
      /\ Len(p.keys) = 2
      /\ p.keys[1] # p.keys[2]
      /\ p.keys[1] = g[1]
      /\ p.val[p.keys[1]].symbol = "X"
      /\ p.val[p.keys[2]].symbol = "O"
      /\ p.val[p.keys[1]].socketId # p.val[p.keys[2]].socketId

\* C17: the disconnect of socket c leaves users[e] alone for every
\* identifier e that users maps to another, still connected socket d.
C17_DisconnectKeepsOthers ==
    [][last'.ev = "disconnect" =>
         LET c == last'.sock IN
         \A e \in Emails :
           ( /\ users[e] # NoSocket
             /\ users[e] # c
             /\ sockets[users[e]] = "open" )
           => \/ users'[e] = users[e]
              \/ ~Disconnect(c)]_vars

\* C18: no socket is named as a player by two records of ongoing games, and
\* every ongoing game is the attached game of the sockets it names.
C18_OneOngoingGamePerSocket ==
    /\ \A s \in SocketIds :
         Cardinality({g \in DOMAIN games :
                        games[g].status = "ongoing" /\ s \in Conns(g)}) <= 1
    /\ \A g \in DOMAIN games :
         games[g].status = "ongoing" =>
           \A s \in Conns(g) : sockets[s] = "open" => gameIdOf[s] = g

\* C19: no handler throws, whatever register, challenge, make_move and
\* disconnect events arrive.
C19_NoHandlerThrows == ~crashed

\* triple k is complete on board b and no other triple is
OnlyTriple(b, k) ==
    /\ Complete(b, k)
    /\ \A j \in 1..8 : j # k => ~Complete(b, j)

\* C13, as the specification words it: the accepted move by which X comes
\* to hold cells 0, 4 and 8, no other triple being complete, leaves the game
\* ongoing and emits no game_over carrying X; and the accepted move by which
\* a symbol comes to hold cells 0, 1 and 2 emits game_over with that symbol.
C13_DiagonalIsNoWin ==
    [][(MoveNext /\ MoveMadeNext) =>
         LET s == last'.sock
             index == emitted'[1].payload.index
             g == gameIdOf[s]
             b == games'[g].board
         IN
         MakeMove(s, index) =>
           /\ (b[index] = "X" /\ index \in {0, 4, 8} /\ OnlyTriple(b, 7)) =>
                /\ games'[g].status = "ongoing"
                /\ \A k \in Places(emitted', "game_over") : emitted'[k].payload # "X"
           /\ (index \in {0, 1, 2} /\ Complete(b, 1)) =>
                \E k \in Places(emitted', "game_over") : emitted'[k].payload = b[index]]_vars

\* C13, amended: the accepted move by which X comes to hold cells 0, 4 and
\* 8, no other triple being complete, finishes the game and emits game_over
\* with X to both sockets of the record, after the two move_made; and the
\* accepted move by which a symbol comes to hold cells 0, 1 and 2 emits
\* game_over with that symbol.
C13_DiagonalWins ==
    [][(MoveNext /\ MoveMadeNext) =>
         LET s == last'.sock
             index == emitted'[1].payload.index
             g == gameIdOf[s]
             b == games'[g].board
         IN
         MakeMove(s, index) =>
           /\ (b[index] = "X" /\ index \in {0, 4, 8} /\ OnlyTriple(b, 7)) =>
                /\ games'[g].status = "finished"
                /\ Places(emitted', "game_over") = {3, 4}
                /\ emitted'[3].payload = "X" /\ emitted'[4].payload = "X"
                /\ {emitted'[3].room, emitted'[4].room} = Conns(g)
           /\ (index \in {0, 1, 2} /\ Complete(b, 1)) =>
                /\ games'[g].status = "finished"
                /\ \E k \in Places(emitted', "game_over") : emitted'[k].payload = b[index]]_vars

\* the latest move gave X the cells 0, 4 and 8 and nothing else is complete
C13_Witness ==
    /\ last.ev = "make_move"
    /\ Len(emitted) = 4
    /\ emitted[1].payload.index \in {0, 4, 8}
    /\ emitted[3] = Msg("game_over", emitted[3].room, "X")
    /\ gameIdOf[last.sock] \in DOMAIN games
    /\ OnlyTriple(games[gameIdOf[last.sock]].board, 7)
    /\ games[gameIdOf[last.sock]].status = "finished"

\* the triples that are complete on board b
Done(b) == {k \in 1..8 : Complete(b, k)}

\* C15, as the specification words it: no board in the store has two
\* different complete triples.
C15_NoTwoLines ==
    \A g \in DOMAIN games : Cardinality(Done(games[g].board)) <= 1

\* C15, amended: no board in the store has complete triples of two
\* different symbols; a board has at most two complete triples, which then
\* hold the same symbol and share one cell, and its game is finished.
C15_NoTwoSymbolsWin ==
    \A g \in DOMAIN games :
      LET b == games[g].board IN
      /\ Cardinality(Done(b)) <= 2
      /\ Done(b) # {} => games[g].status = "finished"
      /\ \A j, k \in Done(b) :
           /\ b[Triples[j][1]] = b[Triples[k][1]]
           /\ j # k => \E c \in Cells :
                         /\ \E i \in 1..3 : Triples[j][i] = c
                         /\ \E i \in 1..3 : Triples[k][i] = c

\* a finished game whose last move completed two triples at once
C15_Witness ==
    \E g \in DOMAIN games :
      /\ games[g].status = "finished"
      /\ Cardinality(Done(games[g].board)) = 2
      /\ last.ev = "make_move"
      /\ gameIdOf[last.sock] = g

\* the cells of board b that hold sym
CountOf(b, sym) == Cardinality({c \in Cells : b[c] = sym})

\* C14: on every board in the store the X cells number as many as the O
\* cells, or one more.
C14_SymbolBalance ==
    \A g \in DOMAIN games :
      CountOf(games[g].board, "X") - CountOf(games[g].board, "O") \in {0, 1}

\* s is a player of game g, by socket or by identifier
PlayerOf(s, g) ==
    \/ s \in Conns(g)
    \/ socketToEmail[s] \in DOMAIN games[g].players.val

\* C16: a record leaves the store only in the disconnect of one of its
\* players while its game is ongoing, and the record of a finished game
\* stays in the store.  Stated for the records that have two players.
C16_GameLeavesOnlyByDisconnect ==
    [][\A g \in DOMAIN games :
         Len(games[g].players.keys) = 2 =>
           /\ g \notin DOMAIN games' =>
                /\ last'.ev = "disconnect"
                /\ PlayerOf(last'.sock, g)
                /\ games[g].status = "ongoing"
           /\ games[g].status = "finished" => g \in DOMAIN games']_vars

\* C20: a game becomes finished only in the make_move that emits its
\* game_over; game_over is emitted only in such a step, once to each socket
\* of the record and after the two move_made of that move; and while the
\* record of a finished game is in the store, a make_move for it emits
\* nothing and its status stays finished, unless a challenge that computes
\* the same game id stores a new game in its place.
C20_GameOverOnce ==
    [][/\ \A g \in DOMAIN games' :
            ( /\ games'[g].status = "finished"
              /\ IF g \in DOMAIN games THEN games[g].status # "finished" ELSE TRUE )
            => /\ MoveNext
               /\ gameIdOf[last'.sock] = g
               /\ Places(emitted', "game_over") = {3, 4}
       /\ Places(emitted', "game_over") # {} =>
            /\ MoveNext
            /\ gameIdOf[last'.sock] \in DOMAIN games
            /\ games[gameIdOf[last'.sock]].status = "ongoing"
            /\ games'[gameIdOf[last'.sock]].status = "finished"
            /\ Places(emitted', "move_made") = {1, 2}
            /\ Places(emitted', "game_over") = {3, 4}
            /\ {emitted'[3].room, emitted'[4].room} = Conns(gameIdOf[last'.sock])
            /\ emitted'[3].payload = emitted'[4].payload
       /\ \A g \in DOMAIN games :
            games[g].status = "finished" =>
              /\ (MoveNext /\ gameIdOf[last'.sock] = g) =>
                   emitted' = <<>> /\ games' = games
              /\ IF g \in DOMAIN games'
                 THEN games'[g].status = "finished" \/ last'.ev = "challenge"
                 ELSE TRUE]_vars

\* a make_move for a finished game has just been ignored
C20_Witness ==
    /\ last.ev = "make_move"
    /\ emitted = <<>>
    /\ ~crashed
    /\ gameIdOf[last.sock] \in DOMAIN games
    /\ games[gameIdOf[last.sock]].status = "finished"
====
